---------------------------- MODULE Spec2Model ----------------------------
(***************************************************************************)
(* Model of the daily-reporting program (src/main.go): one run of main     *)
(* fetches the user's events, keeps those created today, classifies the    *)
(* pull-request events into report lines, prints the report and writes it  *)
(* to a file.                                                              *)
(*                                                                         *)
(* Times are counted in hours; a calendar day is 24 hours.  A JSON value   *)
(* is a record [k, v] whose k is the dynamic type Go sees ("nil" for an    *)
(* absent key).  A JSON object on the extraction path is represented by    *)
(* its kind alone ("map", "nil" or "other").                               *)
(***************************************************************************)
EXTENDS Integers, Sequences, FiniteSets

VARIABLES
    pc,          \* position of main / the running function
    username,    \* os.Getenv("GITHUB_USERNAME")
    tz,          \* offset of the machine's Local zone, in hours
    now,         \* the wall clock: the instant time.Now() returns, in hours
    today,       \* main's local `today`
    fetches,     \* number of HTTP requests sent
    resp,        \* the HTTP response received
    events,      \* getDailyEvents' local `events`
    i,           \* index of getDailyEvents' loop
    dailyEvents, \* getDailyEvents' local `dailyEvents`
    j,           \* index of formatEvents' loop
    seenTitles,  \* formatEvents' local `seenTitles`
    report,      \* formatEvents' local `report`, as a sequence of lines
    locals,      \* formatEvents' per-iteration locals, one record per event
    stdout,      \* what was printed on standard output
    file,        \* content of the report file
    exit,        \* exit code of the process, -1 while it runs
    cause        \* the call that ended the process

vars == << pc, username, tz, now, today, fetches, resp, events, i,
           dailyEvents, j, seenTitles, report, locals, stdout, file, exit,
           cause >>

-----------------------------------------------------------------------------
(* Bounds *)

MaxEvents == 2      \* longest event list in a response
MaxTicks == 1       \* hours the clock may advance during a run

-----------------------------------------------------------------------------
(* JSON values as Go's interface{} sees them *)

Nil == [k |-> "nil", v |-> ""]
Str(s) == [k |-> "str", v |-> s]
Num == [k |-> "num", v |-> ""]
Bool(b) == [k |-> "bool", v |-> b]
NilBool == [k |-> "nil", v |-> FALSE]
NumBool == [k |-> "num", v |-> FALSE]

\* created_at values: absent, a number, a string that is not RFC3339, and
\* the RFC3339 string "<day>T<hour>:00:00<off>" (off = 0 is "Z").
NoStamp == [k |-> "nil", ok |-> FALSE, day |-> 0, hour |-> 0, off |-> 0]
NumStamp == [k |-> "num", ok |-> FALSE, day |-> 0, hour |-> 0, off |-> 0]
BadStamp == [k |-> "str", ok |-> FALSE, day |-> 0, hour |-> 0, off |-> 0]
Stamp(d, h, o) == [k |-> "str", ok |-> TRUE, day |-> d, hour |-> h, off |-> o]

Event(ca, ty, pl, act, pr, mg, ti, us, lg, rv, ru, rl) ==
    [created_at |-> ca, type |-> ty, payload |-> pl, action |-> act,
     pull_request |-> pr, merged |-> mg, title |-> ti, user |-> us,
     login |-> lg, review |-> rv, review_user |-> ru, review_login |-> rl]

\* A well-formed PullRequestEvent.
PREvent(ca, title, login, action, merged) ==
    Event(ca, Str("PullRequestEvent"), "map", Str(action), "map",
          Bool(merged), Str(title), "map", Str(login), "nil", "nil", Nil)

\* A well-formed PullRequestReviewEvent on a pull request owned by `owner`.
ReviewEvent(ca, title, owner, reviewer, action, merged) ==
    Event(ca, Str("PullRequestReviewEvent"), "map", Str(action), "map",
          Bool(merged), Str(title), "map", Str(owner), "map", "map",
          Str(reviewer))

-----------------------------------------------------------------------------
(* Go's time package, as main.go uses it *)

dateFormat == "2006-01-02"
headerFormat == "Jan 02, 2006"

\* time.Now(): the current instant, in the Local zone.
Now(clock, zone) == [instant |-> clock, zone |-> zone]

\* time.Parse(time.RFC3339, s): the instant the string denotes, in the
\* zone the string names.
ParseRFC3339(s) ==
    IF s.ok
      THEN [err |-> FALSE, instant |-> s.day * 24 + s.hour - s.off,
            zone |-> s.off]
      ELSE [err |-> TRUE, instant |-> 0, zone |-> 0]

\* t.Format(layout) for the two layouts used: both render the calendar day
\* of t in t's own zone.
FormatTime(t, layout) ==
    [layout |-> layout, day |-> (t.instant + t.zone) \div 24]

\* The calendar day of t in UTC.
UTCDay(t) == t.instant \div 24

-----------------------------------------------------------------------------
(* getDailyEvents: the filter on created_at (src/main.go:84-98) *)

\* The body of the loop over the fetched events: whether the event is
\* appended to dailyEvents.
Keep(event, date) ==
    /\ event.created_at.k = "str"
    /\ LET startTime == ParseRFC3339(event.created_at)
       IN /\ ~startTime.err
          /\ FormatTime(startTime, dateFormat) = date

-----------------------------------------------------------------------------
(* formatEvents: extraction and classification (src/main.go:101-166) *)

\* x.(string) and x.(bool) in the comma-ok form, the ok flag discarded.
AssertString(x) == IF x.k = "str" THEN x.v ELSE ""
AssertBool(x) == IF x.k = "bool" THEN x.v ELSE FALSE

\* x.(map[string]interface{}) in the single-value form: it panics unless
\* x is a JSON object.
AssertMapPanics(kind) == kind # "map"

\* The zero values of the locals declared at the top of the loop body.
ZeroFields ==
    [panic |-> FALSE, action |-> "", merged |-> FALSE, prTitle |-> "",
     author |-> ""]

Panicked ==
    [panic |-> TRUE, action |-> "", merged |-> FALSE, prTitle |-> "",
     author |-> ""]

\* Extract without the switch on eventType: every event is read as a
\* PullRequestEvent.
ExtractAnyType(event) ==
    IF \/ AssertMapPanics(event.payload)
       \/ AssertMapPanics(event.pull_request)
       \/ AssertMapPanics(event.user)
      THEN Panicked
      ELSE [panic |-> FALSE,
            action |-> AssertString(event.action),
            merged |-> AssertBool(event.merged),
            prTitle |-> AssertString(event.title),
            author |-> AssertString(event.login)]

\* The switch on eventType: the values of action, merged, prTitle and
\* author after it, or the panic of a failed map assertion.
Extract(event) ==
    LET eventType == event.type.v
    IN IF eventType = "PullRequestEvent"
         THEN IF \/ AssertMapPanics(event.payload)
                 \/ AssertMapPanics(event.pull_request)
                 \/ AssertMapPanics(event.user)
                THEN Panicked
                ELSE [panic |-> FALSE,
                      action |-> AssertString(event.action),
                      merged |-> AssertBool(event.merged),
                      prTitle |-> AssertString(event.title),
                      author |-> AssertString(event.login)]
         ELSE IF eventType = "PullRequestReviewEvent"
           THEN IF \/ AssertMapPanics(event.payload)
                   \/ AssertMapPanics(event.pull_request)
                   \/ AssertMapPanics(event.review)
                   \/ AssertMapPanics(event.review_user)
                  THEN Panicked
                  ELSE [panic |-> FALSE,
                        action |-> AssertString(event.action),
                        merged |-> AssertBool(event.merged),
                        prTitle |-> AssertString(event.title),
                        author |-> AssertString(event.review_login)]
           ELSE ZeroFields

\* Status with its first two cases exchanged.
StatusSwapped(author, action, merged, self) ==
    IF author = self /\ action = "opened" THEN "In Review"
    ELSE IF author = self /\ action = "opened" /\ merged THEN "Done"
    ELSE IF author = self /\ action = "closed" /\ merged THEN "Done"
    ELSE IF author = self /\ merged THEN "Done"
    ELSE IF author # self /\ action = "closed" /\ merged
      THEN "Reviewed and merged"
    ELSE IF author # self /\ action = "closed" THEN "Reviewed"
    ELSE ""

\* The switch that sets status: the first case that holds, top to bottom.
Status(author, action, merged, self) ==
    IF author = self /\ action = "opened" /\ merged THEN "Done"
    ELSE IF author = self /\ action = "opened" THEN "In Review"
    ELSE IF author = self /\ action = "closed" /\ merged THEN "Done"
    ELSE IF author = self /\ merged THEN "Done"
    ELSE IF author # self /\ action = "closed" /\ merged
      THEN "Reviewed and merged"
    ELSE IF author # self /\ action = "closed" THEN "Reviewed"
    ELSE ""

\* Unseen without the lookup: every title passes.
UnseenAlways(seen, prTitle) == TRUE

\* if !seenTitles[prTitle]
Unseen(seen, prTitle) == prTitle \notin seen

\* MarkSeen without the assignment.
MarkSeenNever(seen, prTitle) == seen

\* seenTitles[prTitle] = true
MarkSeen(seen, prTitle) == seen \cup {prTitle}

\* if status != "" && prTitle != ""
Emits(status, prTitle) == status # "" /\ prTitle # ""

\* One iteration of the loop over the daily events: the locals at its end.
\*   skipped: the type was no string (continue);  panic: an assertion
\*   failed;  fresh: the title had not been seen;  emitted: a line was added.
Iteration(event, seen, self) ==
    IF event.type.k # "str"
      THEN [skipped |-> TRUE, panic |-> FALSE, prTitle |-> "", author |-> "",
            action |-> "", merged |-> FALSE, fresh |-> FALSE, status |-> "",
            emitted |-> FALSE]
      ELSE LET x == Extract(event)
               fresh == ~x.panic /\ Unseen(seen, x.prTitle)
               status == IF fresh
                           THEN Status(x.author, x.action, x.merged, self)
                           ELSE ""
           IN [skipped |-> FALSE, panic |-> x.panic, prTitle |-> x.prTitle,
               author |-> x.author, action |-> x.action, merged |-> x.merged,
               fresh |-> fresh, status |-> status,
               emitted |-> fresh /\ Emits(status, x.prTitle)]

-----------------------------------------------------------------------------
(* The report, as a sequence of lines *)

NoDate == [layout |-> "", day |-> 0]

\* fmt.Sprintf("%s:\n", time.Now().Format("Jan 02, 2006"))
Header(t) ==
    [k |-> "header", date |-> FormatTime(t, headerFormat), status |-> "",
     title |-> ""]

FixedLines ==
    << [k |-> "fixed", date |-> NoDate, status |-> "Done",
        title |-> "Attended frail-check meeting"],
       [k |-> "fixed", date |-> NoDate, status |-> "Done",
        title |-> "Attended frail-check followup meeting"] >>

\* fmt.Sprintf("* %s | %s\n", status, prTitle)
PRLine(status, prTitle) ==
    [k |-> "pr", date |-> NoDate, status |-> status, title |-> prTitle]

\* AddLine putting the line before the classified lines already there.
AddLineFirst(rep, line) ==
    SubSeq(rep, 1, 3) \o << line >> \o SubSeq(rep, 4, Len(rep))

\* report += line
AddLine(rep, line) == Append(rep, line)

TrailingBlock ==
    << [k |-> "next", date |-> NoDate, status |-> "", title |-> "Next:"],
       [k |-> "next", date |-> NoDate, status |-> "",
        title |-> "Continue with assigned task and R&D"] >>

\* fmt.Println(report): the report and the newline Println adds.
Println(rep) ==
    Append(rep, [k |-> "newline", date |-> NoDate, status |-> "",
                 title |-> ""])

-----------------------------------------------------------------------------
(* The inputs of a run *)

\* Values of GITHUB_USERNAME: set, unset, and set to a value that is no
\* valid part of a URL (an invalid percent escape).
Usernames == {"me", "", "a%zz"}

\* url.Parse, called by http.NewRequest on fmt.Sprintf(eventsAPI, username):
\* whether the URL parses.
URLParses(name) == name \notin {"a%zz"}

\* Offsets of the machine's Local zone.
LocalZones == {0, 9}

\* The clock when main starts: day 1, 23:00 UTC.
StartHour == 24 + 23

\* All sequences over S of length at most n.
SeqUpTo(S, n) == UNION {[1..m -> S] : m \in 0..n}

Noon == Stamp(1, 10, 0)

\* A PullRequestReviewCommentEvent: not one of the two classified types,
\* but its payload carries the pull request like theirs.
CommentEvent(ca, title) ==
    Event(ca, Str("PullRequestReviewCommentEvent"), "map", Str("created"),
          "map", Bool(TRUE), Str(title), "map", Str("me"), "nil", "nil", Nil)

\* A PushEvent: its payload has no pull request.
PushEvent(ca) ==
    Event(ca, Str("PushEvent"), "map", Nil, "nil", NilBool, Nil, "nil", Nil,
          "nil", "nil", Nil)

\* The events a response may carry in a whole run of main.
MainEvents ==
    { PREvent(Noon, "A", "me", "opened", FALSE),
      PREvent(Noon, "A", "bob", "closed", TRUE),
      PREvent(Noon, "A", "me", "reopened", FALSE),
      PREvent(Stamp(2, 1, 0), "B", "me", "closed", TRUE),
      PREvent(Stamp(1, 1, 9), "B", "bob", "closed", FALSE),
      PREvent(NoStamp, "A", "me", "opened", TRUE),
      PREvent(NumStamp, "B", "me", "opened", TRUE),
      PREvent(BadStamp, "A", "bob", "closed", FALSE),
      CommentEvent(Noon, "A"),
      PushEvent(Stamp(2, 1, 0)),
      [PREvent(Noon, "B", "me", "opened", FALSE) EXCEPT !.type = Num],
      [PREvent(Noon, "A", "me", "opened", FALSE) EXCEPT !.payload = "nil"] }

\* The events formatEvents is given when it is studied alone: all of today.
\*   every (author, action, merged) for one title,
WellFormedA ==
    { PREvent(Noon, "A", l, a, m) :
        l \in {"me", "bob"}, a \in {"opened", "closed", "reopened"},
        m \in BOOLEAN }

\*   a second title, review events, and leaves that are absent or mistyped,
OtherWellFormed ==
    { PREvent(Noon, "B", "me", "opened", FALSE),
      PREvent(Noon, "B", "bob", "closed", TRUE),
      ReviewEvent(Noon, "A", "bob", "me", "created", TRUE),
      ReviewEvent(Noon, "B", "me", "bob", "closed", FALSE),
      ReviewEvent(Noon, "B", "bob", "me", "created", FALSE),
      [PREvent(Noon, "", "me", "opened", FALSE) EXCEPT !.title = Nil],
      [PREvent(Noon, "A", "me", "", TRUE) EXCEPT !.action = Nil],
      [PREvent(Noon, "B", "me", "opened", FALSE) EXCEPT !.merged = NumBool],
      [PREvent(Noon, "B", "", "closed", TRUE) EXCEPT !.login = Nil] }

\*   objects missing or mistyped on the extraction path,
BrokenPath ==
    { [PREvent(Noon, "A", "me", "opened", FALSE) EXCEPT !.payload = "nil"],
      [PREvent(Noon, "A", "me", "opened", FALSE) EXCEPT !.payload = "other"],
      [PREvent(Noon, "A", "me", "opened", FALSE)
         EXCEPT !.pull_request = "nil"],
      [PREvent(Noon, "B", "me", "opened", FALSE) EXCEPT !.user = "nil"],
      [ReviewEvent(Noon, "A", "bob", "me", "created", TRUE)
         EXCEPT !.review = "nil"],
      [ReviewEvent(Noon, "B", "bob", "me", "created", TRUE)
         EXCEPT !.review_user = "other"] }

\*   and events of other types or of no type.
Unclassified ==
    { CommentEvent(Noon, "A"),
      PushEvent(Noon),
      [PREvent(Noon, "A", "me", "opened", FALSE) EXCEPT !.type = Nil],
      [PREvent(Noon, "B", "me", "opened", FALSE) EXCEPT !.type = Num] }

FormatEvents == WellFormedA \cup OtherWellFormed \cup BrokenPath \cup Unclassified

Statuses == {200, 404}

Success(status) == status \div 100 = 2

NoResponse == [status |-> 0, body |-> "none", events |-> << >>]

\* The responses of the events API: a status and a body that is a JSON
\* array of objects, the JSON null, a JSON object, or no JSON at all.
Responses ==
    { [status |-> s, body |-> b, events |-> << >>] :
        s \in Statuses, b \in {"null", "object", "malformed"} }
    \cup
    { [status |-> s, body |-> "array", events |-> l] :
        s \in Statuses, l \in SeqUpTo(MainEvents, MaxEvents) }

\* The report file: what it held before the run, the report, or what a
\* failed write left of it.
OldFile == [state |-> "old", text |-> << >>]
Truncated == [state |-> "truncated", text |-> << >>]
Written(rep) == [state |-> "written", text |-> rep]

-----------------------------------------------------------------------------
(* main and the functions it calls, step by step *)

\* log.Fatal(err): the error goes to standard error and the process exits
\* with code 1.
Fatal(call) ==
    /\ pc' = "exit"
    /\ exit' = 1
    /\ cause' = call

\* loadEnv (src/main.go:16-20)
LoadEnvOk ==
    /\ pc = "loadEnv"
    /\ pc' = "today"
    /\ UNCHANGED << username, tz, now, today, fetches, resp, events, i,
                    dailyEvents, j, seenTitles, report, locals, stdout, file,
                    exit, cause >>

LoadEnvFail ==
    /\ pc = "loadEnv"
    /\ Fatal("loadEnv")
    /\ UNCHANGED << username, tz, now, today, fetches, resp, events, i,
                    dailyEvents, j, seenTitles, report, locals, stdout, file >>

\* today := time.Now().Format(dateFormat)
ReadToday ==
    /\ pc = "today"
    /\ today' = FormatTime(Now(now, tz), dateFormat)
    /\ pc' = "NewRequest"
    /\ UNCHANGED << username, tz, now, fetches, resp, events, i, dailyEvents,
                    j, seenTitles, report, locals, stdout, file, exit, cause >>

\* http.NewRequest("GET", url, nil) returns an error when the URL does not
\* parse: getDailyEvents returns it before any request is sent and main ends
\* the process.
NewRequestFail ==
    /\ pc = "NewRequest"
    /\ ~URLParses(username)
    /\ Fatal("NewRequest")
    /\ UNCHANGED << username, tz, now, today, fetches, resp, events, i,
                    dailyEvents, j, seenTitles, report, locals, stdout, file >>

\* http.NewRequest succeeds and the Authorization header is set.
NewRequestOk ==
    /\ pc = "NewRequest"
    /\ URLParses(username)
    /\ pc' = "Do"
    /\ UNCHANGED << username, tz, now, today, fetches, resp, events, i,
                    dailyEvents, j, seenTitles, report, locals, stdout, file,
                    exit, cause >>

\* http.DefaultClient.Do(req) returns an error: getDailyEvents returns it
\* and main ends the process.
DoFail ==
    /\ pc = "Do"
    /\ fetches' = fetches + 1
    /\ Fatal("Do")
    /\ UNCHANGED << username, tz, now, today, resp, events, i, dailyEvents,
                    j, seenTitles, report, locals, stdout, file >>

\* http.DefaultClient.Do(req) returns a response, whatever its status.
DoOk ==
    /\ pc = "Do"
    /\ fetches' = fetches + 1
    /\ \E r \in Responses : resp' = r
    /\ pc' = "ReadAll"
    /\ UNCHANGED << username, tz, now, today, events, i, dailyEvents, j,
                    seenTitles, report, locals, stdout, file, exit, cause >>

\* ioutil.ReadAll(resp.Body)
ReadAllFail ==
    /\ pc = "ReadAll"
    /\ Fatal("ReadAll")
    /\ UNCHANGED << username, tz, now, today, fetches, resp, events, i,
                    dailyEvents, j, seenTitles, report, locals, stdout, file >>

ReadAllOk ==
    /\ pc = "ReadAll"
    /\ pc' = "parseJSON"
    /\ UNCHANGED << username, tz, now, today, fetches, resp, events, i,
                    dailyEvents, j, seenTitles, report, locals, stdout, file,
                    exit, cause >>

\* json.Unmarshal(body, &events) into []map[string]interface{}: an array of
\* objects and null decode, anything else is an error.
Decodes(body) == body \in {"array", "null"}

\* ParseJSON with the error of json.Unmarshal dropped: the run goes on
\* with the events decoded so far, none.
ParseJSONIgnoresError ==
    /\ pc = "parseJSON"
    /\ events' = IF Decodes(resp.body) THEN resp.events ELSE << >>
    /\ i' = 1
    /\ dailyEvents' = << >>
    /\ pc' = "filter"
    /\ UNCHANGED << username, tz, now, today, fetches, resp, j, seenTitles,
                    report, locals, stdout, file, exit, cause >>

ParseJSON ==
    /\ pc = "parseJSON"
    /\ IF Decodes(resp.body)
         THEN /\ events' = resp.events
              /\ i' = 1
              /\ dailyEvents' = << >>
              /\ pc' = "filter"
              /\ UNCHANGED << exit, cause >>
         ELSE /\ Fatal("parseJSON")
              /\ UNCHANGED << events, i, dailyEvents >>
    /\ UNCHANGED << username, tz, now, today, fetches, resp, j, seenTitles,
                    report, locals, stdout, file >>

\* One iteration of the loop of getDailyEvents.
FilterLoop ==
    /\ pc = "filter"
    /\ i <= Len(events)
    /\ dailyEvents' = IF Keep(events[i], today)
                        THEN Append(dailyEvents, events[i])
                        ELSE dailyEvents
    /\ i' = i + 1
    /\ UNCHANGED << pc, username, tz, now, today, fetches, resp, events, j,
                    seenTitles, report, locals, stdout, file, exit, cause >>

\* return dailyEvents, nil
FilterReturn ==
    /\ pc = "filter"
    /\ i > Len(events)
    /\ pc' = "formatEvents"
    /\ UNCHANGED << username, tz, now, today, fetches, resp, events, i,
                    dailyEvents, j, seenTitles, report, locals, stdout, file,
                    exit, cause >>

\* The first lines of formatEvents: the header from a new reading of the
\* clock, the two fixed lines, an empty seenTitles.
FormatHeader ==
    /\ pc = "formatEvents"
    /\ report' = << Header(Now(now, tz)) >> \o FixedLines
    /\ seenTitles' = {}
    /\ j' = 1
    /\ locals' = << >>
    /\ pc' = "formatLoop"
    /\ UNCHANGED << username, tz, now, today, fetches, resp, events, i,
                    dailyEvents, stdout, file, exit, cause >>

\* One iteration of the loop of formatEvents.  A failed map assertion is a
\* run-time panic: the process exits with code 2.
FormatLoop ==
    /\ pc = "formatLoop"
    /\ j <= Len(dailyEvents)
    /\ LET it == Iteration(dailyEvents[j], seenTitles, username)
       IN /\ locals' = Append(locals, it)
          /\ IF it.panic
               THEN /\ pc' = "exit"
                    /\ exit' = 2
                    /\ cause' = "panic"
                    /\ UNCHANGED << j, seenTitles, report >>
               ELSE /\ j' = j + 1
                    /\ seenTitles' = IF it.fresh
                                       THEN MarkSeen(seenTitles, it.prTitle)
                                       ELSE seenTitles
                    /\ report' = IF it.emitted
                                   THEN AddLine(report,
                                                PRLine(it.status, it.prTitle))
                                   ELSE report
                    /\ UNCHANGED << pc, exit, cause >>
    /\ UNCHANGED << username, tz, now, today, fetches, resp, events, i,
                    dailyEvents, stdout, file >>

\* report += "Next:..." ; return report
FormatReturn ==
    /\ pc = "formatLoop"
    /\ j > Len(dailyEvents)
    /\ report' = report \o TrailingBlock
    /\ pc' = "print"
    /\ UNCHANGED << username, tz, now, today, fetches, resp, events, i,
                    dailyEvents, j, seenTitles, locals, stdout, file, exit,
                    cause >>

\* fmt.Println(report)
PrintReport ==
    /\ pc = "print"
    /\ stdout' = Println(report)
    /\ pc' = "write"
    /\ UNCHANGED << username, tz, now, today, fetches, resp, events, i,
                    dailyEvents, j, seenTitles, report, locals, file, exit,
                    cause >>

\* ioutil.WriteFile(reportFile, []byte(report), 0644) succeeds; main returns.
WriteOk ==
    /\ pc = "write"
    /\ file' = Written(report)
    /\ pc' = "exit"
    /\ exit' = 0
    /\ cause' = "return"
    /\ UNCHANGED << username, tz, now, today, fetches, resp, events, i,
                    dailyEvents, j, seenTitles, report, locals, stdout >>

\* ioutil.WriteFile fails: before opening the file, or after truncating it.
WriteFail ==
    /\ pc = "write"
    /\ file' \in {file, Truncated}
    /\ Fatal("WriteFile")
    /\ UNCHANGED << username, tz, now, today, fetches, resp, events, i,
                    dailyEvents, j, seenTitles, report, locals, stdout >>

\* The clock advances by an hour while the process runs.
Tick ==
    /\ pc # "exit"
    /\ now < StartHour + MaxTicks
    /\ now' = now + 1
    /\ UNCHANGED << pc, username, tz, today, fetches, resp, events, i,
                    dailyEvents, j, seenTitles, report, locals, stdout, file,
                    exit, cause >>

-----------------------------------------------------------------------------
(* A whole run of main *)

Init ==
    /\ pc = "loadEnv"
    /\ username \in Usernames
    /\ tz \in LocalZones
    /\ now = StartHour
    /\ today = NoDate
    /\ fetches = 0
    /\ resp = NoResponse
    /\ events = << >>
    /\ i = 1
    /\ dailyEvents = << >>
    /\ j = 1
    /\ seenTitles = {}
    /\ report = << >>
    /\ locals = << >>
    /\ stdout = << >>
    /\ file = OldFile
    /\ exit = -1
    /\ cause = ""

Next ==
    \/ LoadEnvOk
    \/ LoadEnvFail
    \/ ReadToday
    \/ NewRequestFail
    \/ NewRequestOk
    \/ DoFail
    \/ DoOk
    \/ ReadAllFail
    \/ ReadAllOk
    \/ ParseJSON
    \/ FilterLoop
    \/ FilterReturn
    \/ FormatHeader
    \/ FormatLoop
    \/ FormatReturn
    \/ PrintReport
    \/ WriteOk
    \/ WriteFail
    \/ Tick

Spec == Init /\ [][Next]_vars

-----------------------------------------------------------------------------
(* formatEvents alone, on every list of today's events *)

InitFormat ==
    /\ pc = "formatEvents"
    /\ username \in {u \in Usernames : URLParses(u)}
    /\ tz = 0
    /\ now = StartHour
    /\ today = FormatTime(Now(now, tz), dateFormat)
    /\ fetches = 1
    /\ dailyEvents \in SeqUpTo(FormatEvents, MaxEvents)
    /\ events = dailyEvents
    /\ resp = [status |-> 200, body |-> "array", events |-> events]
    /\ i = Len(events) + 1
    /\ j = 1
    /\ seenTitles = {}
    /\ report = << >>
    /\ locals = << >>
    /\ stdout = << >>
    /\ file = OldFile
    /\ exit = -1
    /\ cause = ""

NextFormat ==
    \/ FormatHeader
    \/ FormatLoop
    \/ FormatReturn

SpecFormat == InitFormat /\ [][NextFormat]_vars

-----------------------------------------------------------------------------
(* Helpers of the properties *)

\* The classified lines of a report.
PRLines(rep) == SelectSeq(rep, LAMBDA l : l.k = "pr")

\* formatEvents has run to its end: it returned, or it panicked.
FormatReturned == pc \in {"print", "write"} \/ cause \in {"return", "WriteFile"}

\* The status rules of the classifier as a table; action "*" is any action,
\* merged = TRUE requires a merged pull request.
Rules ==
    << [self |-> TRUE, action |-> "opened", merged |-> TRUE, status |-> "Done"],
       [self |-> TRUE, action |-> "opened", merged |-> FALSE,
        status |-> "In Review"],
       [self |-> TRUE, action |-> "closed", merged |-> TRUE, status |-> "Done"],
       [self |-> TRUE, action |-> "*", merged |-> TRUE, status |-> "Done"],
       [self |-> FALSE, action |-> "closed", merged |-> TRUE,
        status |-> "Reviewed and merged"],
       [self |-> FALSE, action |-> "closed", merged |-> FALSE,
        status |-> "Reviewed"] >>

RuleMatches(r, isSelf, action, merged) ==
    /\ r.self = isSelf
    /\ r.action \in {"*", action}
    /\ r.merged => merged

\* The status of the first rule of the table that matches, "" if none does.
TableStatus(isSelf, action, merged) ==
    LET m == {k \in DOMAIN Rules : RuleMatches(Rules[k], isSelf, action, merged)}
    IN IF m = {} THEN ""
       ELSE Rules[CHOOSE k \in m : \A l \in m : k <= l].status

-----------------------------------------------------------------------------
(* Properties of formatEvents, checked under SpecFormat *)

\* C1: the report never holds two classified lines with the same title.
C1_NoTitleTwice ==
    \A a, b \in DOMAIN report :
        (a # b /\ report[a].k = "pr" /\ report[b].k = "pr")
            => report[a].title # report[b].title

\* C1 witness: formatEvents returned a report for a list in which a title that
\* got a line is carried by a later event that matches a rule too.
C1_Witness ==
    /\ pc = "print"
    /\ \E a, b \in DOMAIN locals :
        /\ a < b
        /\ locals[a].emitted
        /\ locals[b].prTitle = locals[a].prTitle
        /\ Status(locals[b].author, locals[b].action, locals[b].merged,
                  username) # ""

\* C2: when the first event carrying a title matches no rule, the title is
\* marked seen all the same, no later event with that title adds a line, and
\* the report has no line for the title.
C2_NoSecondChance ==
    \A a, b \in DOMAIN locals :
        ( /\ a < b
          /\ locals[a].fresh
          /\ locals[a].status = ""
          /\ ~locals[b].skipped
          /\ ~locals[b].panic
          /\ locals[b].prTitle = locals[a].prTitle )
        => /\ locals[a].prTitle \in seenTitles
           /\ ~locals[b].fresh
           /\ ~locals[b].emitted
           /\ \A n \in DOMAIN report :
                report[n].k = "pr" => report[n].title # locals[a].prTitle

\* C2 witness: the first event of a title matched no rule and a later event
\* with the same title would have matched one.
C2_Witness ==
    /\ pc = "print"
    /\ \E a, b \in DOMAIN locals :
        /\ a < b
        /\ locals[a].fresh
        /\ locals[a].status = ""
        /\ locals[a].prTitle # ""
        /\ locals[b].prTitle = locals[a].prTitle
        /\ Status(locals[b].author, locals[b].action, locals[b].merged,
                  username) # ""

\* C3: the first event of a title gets the status of the first rule of the
\* table that matches it, "" if none matches, and it adds the line
\* (status, title) to the report exactly when both are non-empty.
C3_FirstRuleWins ==
    \A a \in DOMAIN locals :
        locals[a].fresh =>
            /\ locals[a].status =
                 TableStatus(locals[a].author = username, locals[a].action,
                             locals[a].merged)
            /\ locals[a].emitted <=>
                 (locals[a].status # "" /\ locals[a].prTitle # "")
            /\ locals[a].emitted <=>
                 \E n \in DOMAIN report :
                    report[n] = PRLine(locals[a].status, locals[a].prTitle)

\* C3 witness: an event of the user's own, opened and merged, which matches
\* rules 1, 2 and 4, was given rule 1's status and a line.
C3_Witness ==
    \E a \in DOMAIN locals :
        /\ locals[a].fresh
        /\ locals[a].author = username
        /\ locals[a].action = "opened"
        /\ locals[a].merged
        /\ locals[a].status = "Done"
        /\ locals[a].emitted

\* C4: no event makes formatEvents fail: a missing or mistyped field on the
\* extraction path yields "" or false and the loop goes on.
C4_NoErrorOnMissingField ==
    /\ cause # "panic"
    /\ \A a \in DOMAIN locals : ~locals[a].panic

\* The title event n of the list carries, for the events whose type is a
\* string.
CarriesTitle(list, n, t) ==
    list[n].type.k = "str" /\ Extract(list[n]).prTitle = t

\* Event n is the first of the list to carry its title.
FirstOfTitle(list, n) ==
    /\ list[n].type.k = "str"
    /\ \A m \in 1..(n - 1) : ~CarriesTitle(list, m, Extract(list[n]).prTitle)

StatusOf(event, self) ==
    LET x == Extract(event) IN Status(x.author, x.action, x.merged, self)

\* The classified lines a list of events is to give: one per title whose
\* first event has a status, in the order of these first events.
RECURSIVE LinesFrom(_, _, _)
LinesFrom(list, n, self) ==
    IF n > Len(list) THEN << >>
    ELSE IF /\ FirstOfTitle(list, n)
            /\ StatusOf(list[n], self) # ""
            /\ Extract(list[n]).prTitle # ""
      THEN << PRLine(StatusOf(list[n], self), Extract(list[n]).prTitle) >>
             \o LinesFrom(list, n + 1, self)
      ELSE LinesFrom(list, n + 1, self)

\* C9: the report formatEvents returns is a date header, the two fixed
\* lines, one line per classified title in the order the titles were first
\* met, and the trailing block; nothing else for an empty list.
C9_ReportLayout ==
    pc = "print" =>
        /\ report[1].k = "header"
        /\ report = << report[1] >> \o FixedLines
                      \o LinesFrom(dailyEvents, 1, username) \o TrailingBlock
        /\ dailyEvents = << >> =>
             report = << report[1] >> \o FixedLines \o TrailingBlock

\* C9 witness: a returned report with two classified lines.
C9_Witness ==
    /\ pc = "print"
    /\ Len(PRLines(report)) = 2
    /\ report[4].title # report[5].title

-----------------------------------------------------------------------------
(* Properties of a whole run, checked under Spec *)

\* The events of the list seen so far by the loop of getDailyEvents.
Filtered == SubSeq(events, 1, i - 1)

Parseable(event) ==
    event.created_at.k = "str" /\ ~ParseRFC3339(event.created_at).err

\* C5: the daily events are the fetched events with a parseable created_at
\* whose calendar day in UTC is the target day, in their original order and
\* each once.
C5_KeptIffUTCDayIsTarget ==
    pc \in {"filter", "formatEvents"} =>
        dailyEvents =
            SelectSeq(Filtered,
                      LAMBDA e : /\ Parseable(e)
                                 /\ UTCDay(ParseRFC3339(e.created_at))
                                      = today.day)

\* C6: getDailyEvents returns an error, and main stops without a report,
\* when the request fails in transport or the response is not a success.
C6_NonSuccessIsAnError ==
    /\ cause = "Do" => (exit = 1 /\ stdout = << >> /\ file = OldFile)
    /\ (resp # NoResponse /\ ~Success(resp.status)) =>
         /\ pc \notin {"filter", "formatEvents", "formatLoop", "print", "write"}
         /\ pc = "exit" => (exit = 1 /\ stdout = << >> /\ file = OldFile)

\* The order of the steps of main.
Rank(p) ==
    CASE p = "loadEnv" -> 0
      [] p = "today" -> 1
      [] p = "NewRequest" -> 2
      [] p = "Do" -> 3
      [] p = "ReadAll" -> 4
      [] p = "parseJSON" -> 5
      [] p = "filter" -> 6
      [] p = "formatEvents" -> 7
      [] p = "formatLoop" -> 8
      [] p = "print" -> 9
      [] p = "write" -> 10
      [] p = "exit" -> 11

C7_State ==
    /\ fetches <= 1
    /\ (stdout # << >> \/ file # OldFile) =>
         /\ fetches = 1
         /\ Decodes(resp.body)
         /\ stdout = Println(report)
         /\ Rank(pc) >= Rank("write")
    /\ file.state = "written" => (file.text = report /\ exit = 0)
    /\ (pc = "exit" /\ (resp = NoResponse \/ ~Decodes(resp.body))) =>
         (exit = 1 /\ stdout = << >> /\ file = OldFile)
    /\ cause \in {"loadEnv", "NewRequest", "Do", "ReadAll", "parseJSON"} =>
         (exit = 1 /\ stdout = << >> /\ file = OldFile)
    /\ cause \in {"loadEnv", "NewRequest"} => fetches = 0
    /\ cause = "WriteFile" =>
         (exit = 1 /\ stdout = Println(report) /\ file.state # "written")
    /\ pc = "exit" <=> exit # -1

C7_Step ==
    /\ Rank(pc') >= Rank(pc)
    /\ fetches' # fetches => (pc = "Do" /\ pc' # "Do")
    /\ stdout' # stdout => (pc = "print" /\ pc' = "write" /\ file = OldFile)
    /\ file' # file => (pc = "write" /\ pc' = "exit")
    /\ pc = "exit" => UNCHANGED vars

\* C7: a run is one ordered pass fetch, decode, filter, format, print, write
\* with a single request; a failed fetch or decoding ends the process with a
\* non-zero code before anything is printed or written; the file is written
\* after the print, with the printed report; a failed write ends the process
\* with a non-zero code and the report printed.
C7_OrderedPass == [](C7_State) /\ [][C7_Step]_vars

\* C7 witness: a run that printed a report with a classified line and wrote
\* it to the file.
C7_Witness ==
    /\ exit = 0
    /\ file.state = "written"
    /\ Len(PRLines(file.text)) > 0

\* An event the two filters are to drop: created_at absent, no string or
\* unparseable, or a type that is not one of the two classified ones.
Inert(event) ==
    \/ ~Parseable(event)
    \/ event.type.k # "str"
    \/ event.type.v \notin {"PullRequestEvent", "PullRequestReviewEvent"}

\* getDailyEvents' loop as a function of the fetched list.
Daily(list, date) == SelectSeq(list, LAMBDA e : Keep(e, date))

\* formatEvents' loop as a function of the daily list: the classified lines
\* and whether the loop panicked.
RECURSIVE FormatFold(_, _, _, _, _)
FormatFold(list, n, seen, lines, self) ==
    IF n > Len(list) THEN [panic |-> FALSE, lines |-> lines]
    ELSE LET it == Iteration(list[n], seen, self)
         IN IF it.panic THEN [panic |-> TRUE, lines |-> lines]
            ELSE FormatFold(list, n + 1,
                            IF it.fresh THEN MarkSeen(seen, it.prTitle)
                                        ELSE seen,
                            IF it.emitted
                              THEN AddLine(lines, PRLine(it.status, it.prTitle))
                              ELSE lines,
                            self)

\* C8: events with a bad created_at and events of other types add no line,
\* raise no error, and the run gives the lines it gives without them.
C8_InertEventsAreSilent ==
    /\ \A n \in DOMAIN dailyEvents : Parseable(dailyEvents[n])
    /\ \A n \in DOMAIN locals :
         Inert(dailyEvents[n]) => (~locals[n].panic /\ ~locals[n].emitted)
    /\ (FormatReturned \/ cause = "panic") =>
         LET rest == SelectSeq(events, LAMBDA e : ~Inert(e))
             alone == FormatFold(Daily(rest, today), 1, {}, << >>, username)
         IN /\ PRLines(report) = alone.lines
            /\ (cause = "panic") = alone.panic

\* C8 witness: a report was returned for a list in which an event of another
\* type carries the title of a classified line.
C8_Witness ==
    /\ pc = "print"
    /\ \E a, b \in DOMAIN dailyEvents :
        /\ a < b
        /\ Inert(dailyEvents[a])
        /\ dailyEvents[a].title = dailyEvents[b].title
        /\ locals[b].emitted

\* C10: the day of the report's header is the day the events were filtered
\* by.
C10_HeaderDayIsFilterDay ==
    Len(report) > 0 => report[1].date.day = today.day

=============================================================================
